---- MODULE Spec2Model ----
(***************************************************************************)
(* Model of backend/app/main.py: the in-memory session store, the two      *)
(* request handlers (/lesson-step, /practice), the generation call with    *)
(* its fallbacks, the lesson output parser and the practice formatter.     *)
(*                                                                         *)
(* A Python str is a sequence of symbols.  A symbol is one character       *)
(* ("\n", " ", "1", ")", ".", "x") or a keyword written as one symbol      *)
(* ("Checkpoint:", "Recap:", "code", "Apply", ...): the code only tests    *)
(* keywords with startswith / in after lower(), so a keyword never needs   *)
(* to be taken apart.  Python indices are kept 0-based, -1 is "not found". *)
(***************************************************************************)
EXTENDS Integers, Sequences, FiniteSets, TLC

VARIABLES
  SESSIONS,   \* the module-level dict: session id -> [history |-> list of turns]
  client,     \* TRUE iff OPENAI_API_KEY was set at import (client is not None)
  nobj,       \* number of turn objects allocated so far (object identity)
  issued,     \* history: ids returned by get_or_create_session so far
  lessons,    \* history: id -> number of completed lesson-step requests
  last,       \* history: the last request served and its response
  pc,         \* per worker thread: position inside lesson_step
  loc,        \* per worker thread: locals of lesson_step
  completed,  \* history: turns appended by requests that have returned
  raw_text,   \* input of the parser / formatter run
  out         \* result of the parser / formatter run

vars == <<SESSIONS, client, nobj, issued, lessons, last, pc, loc, completed, raw_text, out>>

\* ------------------------------------------------------------------ bounds
MaxLen == 5
MaxPracticeLen == 5
MaxRequests == 3
NumUuids == 2
MaxConcRequests == 3

\* ------------------------------------------------------- python str helpers
Whitespace == {" ", "\n"}

LowerChar(c) ==
  CASE c = "Checkpoint:" -> "checkpoint:"
    [] c = "CHECKPOINT:" -> "checkpoint:"
    [] c = "Recap:" -> "recap:"
    [] c = "Code" -> "code"
    [] c = "Apply" -> "apply"
    [] c = "Scenario" -> "scenario"
    [] OTHER -> c

lower(s) == [i \in DOMAIN s |-> LowerChar(s[i])]

\* s[a:b] for 0 <= a, 0 <= b
Slice(s, a, b) ==
  LET hi == IF b > Len(s) THEN Len(s) ELSE b
  IN IF a >= hi THEN << >> ELSE SubSeq(s, a + 1, hi)

RECURSIVE lstrip(_, _)
lstrip(s, chars) ==
  IF s # << >> /\ Head(s) \in chars THEN lstrip(Tail(s), chars) ELSE s

RECURSIVE rstrip(_, _)
rstrip(s, chars) ==
  IF s # << >> /\ s[Len(s)] \in chars
  THEN rstrip(SubSeq(s, 1, Len(s) - 1), chars) ELSE s

strip(s) == rstrip(lstrip(s, Whitespace), Whitespace)

\* s.split('\n'): always at least one piece
RECURSIVE split(_, _)
split(s, sep) ==
  IF \E i \in DOMAIN s : s[i] = sep
  THEN LET i == CHOOSE k \in DOMAIN s :
                  s[k] = sep /\ \A j \in 1..(k - 1) : s[j] # sep
       IN <<SubSeq(s, 1, i - 1)>> \o split(SubSeq(s, i + 1, Len(s)), sep)
  ELSE <<s>>

\* s.splitlines(): no piece for the empty string or after a final line break
splitlines(s) ==
  IF s = << >> THEN << >>
  ELSE IF s[Len(s)] = "\n" THEN split(SubSeq(s, 1, Len(s) - 1), "\n")
  ELSE split(s, "\n")

RECURSIVE join(_, _)
join(sep, parts) ==
  IF parts = << >> THEN << >>
  ELSE IF Len(parts) = 1 THEN parts[1]
  ELSE parts[1] \o <<sep>> \o join(sep, Tail(parts))

startswith(s, prefix) ==
  Len(s) >= Len(prefix) /\ SubSeq(s, 1, Len(prefix)) = prefix

contains(s, word) == \E i \in DOMAIN s : s[i] = word

\* [f(x) for x in xs if p(x)] with f = strip, p = non-empty after strip
RECURSIVE StrippedNonEmpty(_)
StrippedNonEmpty(xs) ==
  IF xs = << >> THEN << >>
  ELSE IF strip(Head(xs)) # << >>
       THEN <<strip(Head(xs))>> \o StrippedNonEmpty(Tail(xs))
       ELSE StrippedNonEmpty(Tail(xs))

\* ------------------------------------------------------ split_lesson_output
DefaultCheckpoint == <<"Checkpoint:", " ", "What is one key idea here?">>
DefaultRecap == <<"Recap:", " ", "Quick recap: key idea in one line.">>
DefaultStep == <<"Let's continue learning...">>

lesson_lines(text) == StrippedNonEmpty(split(strip(text), "\n"))

\* next((i for i, line in enumerate(lines) if line.lower().startswith(m)), -1)
first_idx(lines, marker) ==
  IF \E i \in DOMAIN lines : startswith(lower(lines[i]), marker)
  THEN (CHOOSE i \in DOMAIN lines :
          /\ startswith(lower(lines[i]), marker)
          /\ \A j \in 1..(i - 1) : ~startswith(lower(lines[j]), marker)) - 1
  ELSE -1

Min(S) == CHOOSE m \in S : \A k \in S : m <= k

step_end_of(checkpoint_idx, recap_idx, n) ==
  Min({i \in {checkpoint_idx, recap_idx, n} : i # -1})

step_lines_of(lines, step_end) ==
  IF step_end > 0 THEN Slice(lines, 0, step_end) ELSE lines

\* mutant: the recap marker ends the checkpoint wherever it stands
checkpoint_end_of_any_recap(checkpoint_idx, recap_idx, n) ==
  IF recap_idx # -1 THEN recap_idx ELSE n

checkpoint_end_of(checkpoint_idx, recap_idx, n) ==
  IF recap_idx > checkpoint_idx THEN recap_idx ELSE n

checkpoint_of(lines, checkpoint_idx, recap_idx) ==
  IF checkpoint_idx # -1
  THEN join(" ", Slice(lines, checkpoint_idx,
                       checkpoint_end_of(checkpoint_idx, recap_idx, Len(lines))))
  ELSE DefaultCheckpoint

recap_of(lines, recap_idx) ==
  IF recap_idx # -1
  THEN join(" ", Slice(lines, recap_idx, Len(lines)))
  ELSE DefaultRecap

\* mutant: the empty step is not replaced by the default sentence
step_part_of_no_default(step_lines) == strip(join("\n", step_lines))

step_part_of(step_lines) ==
  LET joined == strip(join("\n", step_lines))
  IN IF joined = << >> THEN DefaultStep ELSE joined

split_lesson_output(text) ==
  LET lines == lesson_lines(text)
      checkpoint_idx == first_idx(lines, <<"checkpoint:">>)
      recap_idx == first_idx(lines, <<"recap:">>)
      step_end == step_end_of(checkpoint_idx, recap_idx, Len(lines))
      step_lines == step_lines_of(lines, step_end)
  IN [step |-> step_part_of(step_lines),
      checkpoint |-> checkpoint_of(lines, checkpoint_idx, recap_idx),
      recap |-> recap_of(lines, recap_idx)]

\* ------------------------------------------------------- practice formatter
NumberingChars == {"0", "1", "2", "3", "4", "5", "6", "7", "8", "9", ")", ".", " "}

DefaultPracticeItem ==
  [question |-> <<"Describe one key idea from the lesson in your own words.">>,
   kind |-> "concept"]

strip_numbering(cleaned) == lstrip(cleaned, NumberingChars)

kind_of(cleaned) ==
  IF contains(lower(cleaned), "code") THEN "code"
  ELSE IF contains(lower(cleaned), "apply") \/ contains(lower(cleaned), "scenario")
       THEN "applied"
  ELSE "concept"

RECURSIVE items_of_lines(_)
items_of_lines(ls) ==
  IF ls = << >> THEN << >>
  ELSE LET cleaned == strip(Head(ls))
       IN IF cleaned = << >> THEN items_of_lines(Tail(ls))
          ELSE <<[question |-> strip_numbering(cleaned),
                  kind |-> kind_of(strip_numbering(cleaned))]>>
               \o items_of_lines(Tail(ls))

practice_items(raw) ==
  LET items == items_of_lines(splitlines(raw))
  IN IF items = << >> THEN <<DefaultPracticeItem>> ELSE items

\* ------------------------------------------------------------- call_model
PracticeFallback ==
  <<"1", ")", " ", "What is the main concept you learned?", "\n",
    "2", ")", " ", "Can you give a real-world example?", "\n",
    "3", ")", " ", "Try writing a simple ", "code", " example.", "\n",
    "4", ")", " ", "How would you explain this to a friend?", "\n",
    "5", ")", " ", "What questions do you still have?">>

OfflineLesson(subject, topic) ==
  <<"Let's start learning about ">> \o topic \o <<" in ">> \o subject \o <<".">>
  \o <<"\n", "\n",
       "Think of it like learning to ride a bike - you start with the basics before moving to advanced tricks.",
       "\n", "\n", "Checkpoint:", " ", "Can you explain what ">> \o topic
  \o <<" means in your own words?", "\n", "\n",
       "Recap:", " ", "We're building understanding step by step.">>

ErrorLesson ==
  <<"Let's learn this concept step by step.", "\n", "\n",
    "Start with the basics - understanding the foundation is key.", "\n", "\n",
    "Checkpoint:", " ", "What is one thing you understand so far?", "\n", "\n",
    "Recap:", " ", "Building knowledge one step at a time.">>

\* content.split(key)[-1].split(".")[0].strip() if key in str(messages[-1]) else dflt
field_after(content, key, dflt) ==
  IF contains(content, key)
  THEN LET pieces == split(content, key)
       IN strip(split(pieces[Len(pieces)], ".")[1])
  ELSE dflt

\* mutant: no try/except around the API call
call_model_no_except(api, messages, output_kind) ==
  IF client = FALSE
  THEN IF output_kind = "practice"
       THEN [raised |-> FALSE, value |-> PracticeFallback]
       ELSE [raised |-> FALSE,
             value |-> OfflineLesson(
               field_after(messages[Len(messages)].content, "Subject:", <<"the topic">>),
               field_after(messages[Len(messages)].content, "Topic:", <<"this concept">>))]
  ELSE IF api.raises
       THEN [raised |-> TRUE, value |-> << >>]
       ELSE [raised |-> FALSE, value |-> api.content]

\* api is what client.chat.completions.create does when it is reached:
\* [raises |-> TRUE] or [raises |-> FALSE, content |-> text].
\* The result is [raised |-> FALSE, value |-> text] for a return and
\* [raised |-> TRUE] for an exception leaving call_model.
call_model(api, messages, output_kind) ==
  IF client = FALSE
  THEN IF output_kind = "practice"
       THEN [raised |-> FALSE, value |-> PracticeFallback]
       ELSE [raised |-> FALSE,
             value |-> OfflineLesson(
               field_after(messages[Len(messages)].content, "Subject:", <<"the topic">>),
               field_after(messages[Len(messages)].content, "Topic:", <<"this concept">>))]
  ELSE IF api.raises
       THEN IF output_kind = "practice"
            THEN [raised |-> FALSE, value |-> PracticeFallback]
            ELSE [raised |-> FALSE, value |-> ErrorLesson]
       ELSE [raised |-> FALSE, value |-> api.content]

\* --------------------------------------------------------- build_messages
SYSTEM_PROMPT == <<"You are an AI Teaching Assistant ...">>

LessonInstruction ==
  <<"Please provide a clear, step-by-step explanation with a real-world example.">>

user_note_of(req) ==
  <<"Subject:", " ", req.subject, ".", " ", "Topic:", " ", req.topic, ".", " ",
    "Level: ", req.level, ".">>
  \o (IF req.misconceptions # << >>
      THEN <<" Known misconceptions: ">> \o join(", ", req.misconceptions) \o <<".">>
      ELSE << >>)
  \o (IF req.last_answer # << >>
      THEN <<" Learner previous answer: ">> \o req.last_answer \o <<".">>
      ELSE << >>)
  \o (IF req.confusion
      THEN <<" Learner is confused; re-explain with a different analogy.">>
      ELSE << >>)

TurnView(history) ==
  [i \in DOMAIN history |-> [role |-> history[i].role, content |-> history[i].content]]

\* SESSIONS.get(req.session_id, {}).get("history", [])
history_of(S, sid) == IF sid \in DOMAIN S THEN S[sid].history ELSE << >>

build_messages(S, req) ==
  <<[role |-> "system", content |-> SYSTEM_PROMPT]>>
  \o TurnView(history_of(S, req.session_id))
  \o <<[role |-> "user", content |-> user_note_of(req)]>>

lesson_messages(S, req) ==
  build_messages(S, req) \o <<[role |-> "user", content |-> LessonInstruction]>>

practice_messages(req) ==
  <<[role |-> "system", content |-> SYSTEM_PROMPT],
    [role |-> "user", content |-> <<"Create 5 practice questions for subject ",
                                    req.subject, ", topic ", req.topic, ", level ",
                                    req.level, ". ...">>]>>

\* ------------------------------------------------------------ session store
\* Optional[str] = None.  Not a session id: request ids are drawn from
\* ClientIds, Uuids and the empty string.
None == "<None>"
ClientIds == {"s1"}
Uuids == {"uuid-" \o ToString(i) : i \in 1..NumUuids}
RequestIds == {None, ""} \cup ClientIds \cup Uuids

Truthy(session_id) == session_id # None /\ session_id # ""

Put(S, k, v) == [x \in DOMAIN S \cup {k} |-> IF x = k THEN v ELSE S[x]]

\* mutant: the "in SESSIONS" test is missing, a known id is created again
get_or_create_session_always_creates(S, session_id, uuid) ==
  LET new_id == IF Truthy(session_id) THEN session_id ELSE uuid
  IN [id |-> new_id, store |-> Put(S, new_id, [history |-> << >>])]

\* mutant: "session_id if session_id is not None else uuid4()": "" is kept
get_or_create_session_keeps_empty(S, session_id, uuid) ==
  IF session_id # None /\ session_id \in DOMAIN S
  THEN [id |-> session_id, store |-> S]
  ELSE LET new_id == IF session_id # None THEN session_id ELSE uuid
       IN [id |-> new_id, store |-> Put(S, new_id, [history |-> << >>])]

\* uuid is the value str(uuid.uuid4()) has when it is evaluated
get_or_create_session(S, session_id, uuid) ==
  IF Truthy(session_id) /\ session_id \in DOMAIN S
  THEN [id |-> session_id, store |-> S]
  ELSE LET new_id == IF Truthy(session_id) THEN session_id ELSE uuid
       IN [id |-> new_id, store |-> Put(S, new_id, [history |-> << >>])]

\* uuid4 values are unique: a value the store already holds is never drawn
uuid4(S, session_id) ==
  IF Truthy(session_id) THEN {None} ELSE Uuids \ DOMAIN S

\* mutant: history is assigned instead of appended to
append_turn_assigns(S, session_id, turn) ==
  [S EXCEPT ![session_id].history = <<turn>>]

\* mutant: one history list shared by all sessions
append_turn_shared(S, session_id, turn) ==
  [id \in DOMAIN S |-> [history |-> Append(S[id].history, turn)]]

\* SESSIONS[session_id]["history"].append(turn)
append_turn(S, session_id, turn) ==
  [S EXCEPT ![session_id].history = Append(@, turn)]

\* ------------------------------------------------------------ request inputs
Profiles ==
  {[subject |-> "Java", topic |-> "Classes and Objects", level |-> "beginner",
    last_answer |-> << >>, confusion |-> FALSE, misconceptions |-> << >>],
   [subject |-> "Logical Reasoning", topic |-> "Syllogisms", level |-> "intermediate",
    last_answer |-> <<"x">>, confusion |-> TRUE,
    misconceptions |-> << <<"m1">>, <<"m2">> >>]}

Request(profile, session_id) ==
  [subject |-> profile.subject, topic |-> profile.topic, level |-> profile.level,
   last_answer |-> profile.last_answer, confusion |-> profile.confusion,
   misconceptions |-> profile.misconceptions, session_id |-> session_id]

\* what the provider can answer when the call is reached
GenTexts ==
  {<<"x", "\n", "Checkpoint:", "x", "\n", "Recap:", "x">>,
   <<"1", ")", " ", "Apply", "x", "\n", "2", ".", "Code">>,
   << >>}

ApiOutcomes == {[raises |-> TRUE, content |-> << >>]}
               \cup {[raises |-> FALSE, content |-> t] : t \in GenTexts}

Generation(api) ==
  IF client = FALSE THEN "unavailable"
  ELSE IF api.raises THEN "failed" ELSE "generated"

NoThreads == [t \in {} |-> "idle"]
NoRequest ==
  [op |-> "none", req_sid |-> None, known |-> FALSE, generation |-> "none",
   status |-> 0, session_id |-> None, raw |-> << >>, step |-> << >>,
   checkpoint_question |-> << >>, recap |-> << >>, practice |-> << >>,
   resolved |-> << >>]

Count(f, k) == IF k \in DOMAIN f THEN f[k] ELSE 0

\* -------------------------------------------------- sequential request server
Init ==
  /\ SESSIONS = << >>
  /\ client \in BOOLEAN
  /\ nobj = 0
  /\ issued = {}
  /\ lessons = << >>
  /\ last = NoRequest
  /\ pc = NoThreads
  /\ loc = NoThreads
  /\ completed = {}
  /\ raw_text = << >>
  /\ out = [kind |-> "none"]

\* POST /lesson-step, served alone from the first to the last line
lesson_step(req, api, uuid) ==
  LET r == get_or_create_session(SESSIONS, req.session_id, uuid)
      req2 == [req EXCEPT !.session_id = r.id]
      m == call_model(api, lesson_messages(r.store, req2), "lesson")
  IN /\ nobj < MaxRequests
     /\ nobj' = nobj + 1
     /\ issued' = issued \cup {r.id}
     /\ IF m.raised
        THEN /\ SESSIONS' = r.store
             /\ lessons' = lessons
             /\ last' = [NoRequest EXCEPT !.op = "lesson", !.req_sid = req.session_id,
                           !.known = (req.session_id \in DOMAIN SESSIONS),
                           !.generation = Generation(api), !.status = 500,
                           !.session_id = r.id,
                           !.resolved = r.store[r.id].history]
        ELSE LET parsed == split_lesson_output(m.value)
                 turn == [role |-> "assistant", content |-> m.value, oid |-> nobj]
             IN /\ SESSIONS' = append_turn(r.store, r.id, turn)
                /\ lessons' = Put(lessons, r.id, Count(lessons, r.id) + 1)
                /\ last' = [op |-> "lesson", req_sid |-> req.session_id,
                            known |-> (req.session_id \in DOMAIN SESSIONS),
                            generation |-> Generation(api), status |-> 200,
                            session_id |-> r.id, raw |-> m.value,
                            step |-> parsed.step \o <<"\n", "\n">> \o parsed.checkpoint
                                     \o <<"\n", "\n">> \o parsed.recap,
                            checkpoint_question |-> parsed.checkpoint,
                            recap |-> parsed.recap, practice |-> << >>,
                            resolved |-> r.store[r.id].history]
     /\ UNCHANGED <<client, pc, loc, completed, raw_text, out>>

\* POST /practice
practice(req, api, uuid) ==
  LET r == get_or_create_session(SESSIONS, req.session_id, uuid)
      m == call_model(api, practice_messages(req), "practice")
  IN /\ nobj < MaxRequests
     /\ nobj' = nobj + 1
     /\ issued' = issued \cup {r.id}
     /\ SESSIONS' = r.store
     /\ lessons' = lessons
     /\ last' = [NoRequest EXCEPT !.op = "practice", !.req_sid = req.session_id,
                   !.known = (req.session_id \in DOMAIN SESSIONS),
                   !.generation = Generation(api),
                   !.status = IF m.raised THEN 500 ELSE 200,
                   !.session_id = r.id,
                   !.raw = IF m.raised THEN << >> ELSE m.value,
                   !.practice = IF m.raised THEN << >> ELSE practice_items(m.value),
                   !.resolved = r.store[r.id].history]
     /\ UNCHANGED <<client, pc, loc, completed, raw_text, out>>

LessonStepRequest ==
  \E p \in Profiles, sid \in RequestIds, api \in ApiOutcomes :
    \E uuid \in uuid4(SESSIONS, sid) : lesson_step(Request(p, sid), api, uuid)

PracticeRequest ==
  \E p \in Profiles, sid \in RequestIds, api \in ApiOutcomes :
    \E uuid \in uuid4(SESSIONS, sid) : practice(Request(p, sid), api, uuid)

Next == LessonStepRequest \/ PracticeRequest

Spec == Init /\ [][Next]_vars

\* ------------------------------------------- concurrent lesson-step requests
\* FastAPI runs a plain "def" endpoint in a thread pool; nothing in the module
\* takes a lock.  Each worker thread runs lesson_step; a step below is a
\* stretch of the handler between two points where another thread can run.
NumThreads == 2
Threads == 1..NumThreads

ConcIds == {None, "s1"}
ConcApiOutcomes == {[raises |-> TRUE, content |-> << >>],
                    [raises |-> FALSE, content |-> <<"x">>]}

NoLocals == [req_sid |-> None, session_id |-> None, response |-> << >>, oid |-> -1]

InitConc ==
  /\ SESSIONS = << >>
  /\ client \in BOOLEAN
  /\ nobj = 0
  /\ issued = {}
  /\ lessons = << >>
  /\ last = NoRequest
  /\ pc = [t \in Threads |-> "idle"]
  /\ loc = [t \in Threads |-> NoLocals]
  /\ completed = {}
  /\ raw_text = << >>
  /\ out = [kind |-> "none"]

\* the request arrives and lesson_step is entered
Receive(t, sid) ==
  /\ pc[t] = "idle"
  /\ nobj < MaxConcRequests
  /\ nobj' = nobj + 1
  /\ pc' = [pc EXCEPT ![t] = "check"]
  /\ loc' = [loc EXCEPT ![t] = [NoLocals EXCEPT !.req_sid = sid, !.oid = nobj]]
  /\ UNCHANGED <<SESSIONS, client, issued, lessons, last, completed, raw_text, out>>

\* get_or_create_session: the test "session_id and session_id in SESSIONS"
CheckKnown(t) ==
  /\ pc[t] = "check"
  /\ IF Truthy(loc[t].req_sid) /\ loc[t].req_sid \in DOMAIN SESSIONS
     THEN /\ pc' = [pc EXCEPT ![t] = "call"]
          /\ loc' = [loc EXCEPT ![t].session_id = loc[t].req_sid]
          /\ issued' = issued \cup {loc[t].req_sid}
     ELSE /\ pc' = [pc EXCEPT ![t] = "create"]
          /\ UNCHANGED <<loc, issued>>
  /\ UNCHANGED <<SESSIONS, client, nobj, lessons, last, completed, raw_text, out>>

\* get_or_create_session: new_id = ...; SESSIONS[new_id] = {"history": []}
CreateSession(t) ==
  /\ pc[t] = "create"
  /\ \E uuid \in uuid4(SESSIONS, loc[t].req_sid) :
       LET new_id == IF Truthy(loc[t].req_sid) THEN loc[t].req_sid ELSE uuid
       IN /\ SESSIONS' = Put(SESSIONS, new_id, [history |-> << >>])
          /\ loc' = [loc EXCEPT ![t].session_id = new_id]
          /\ issued' = issued \cup {new_id}
  /\ pc' = [pc EXCEPT ![t] = "call"]
  /\ UNCHANGED <<client, nobj, lessons, last, completed, raw_text, out>>

\* build_messages, call_model, split_lesson_output
CallModel(t, api) ==
  /\ pc[t] = "call"
  /\ LET req == Request(CHOOSE p \in Profiles : p.subject = "Java", loc[t].session_id)
         m == call_model(api, lesson_messages(SESSIONS, req), "lesson")
     IN loc' = [loc EXCEPT ![t].response = m.value]
  /\ pc' = [pc EXCEPT ![t] = "append"]
  /\ UNCHANGED <<SESSIONS, client, nobj, issued, lessons, last, completed, raw_text, out>>

\* SESSIONS[session_id]["history"].append({...})
AppendHistory(t) ==
  /\ pc[t] = "append"
  /\ SESSIONS' = append_turn(SESSIONS, loc[t].session_id,
                             [role |-> "assistant", content |-> loc[t].response,
                              oid |-> loc[t].oid])
  /\ pc' = [pc EXCEPT ![t] = "return"]
  /\ UNCHANGED <<client, nobj, issued, lessons, last, loc, completed, raw_text, out>>

\* return {...}
ReturnResponse(t) ==
  /\ pc[t] = "return"
  /\ completed' = completed \cup {[session_id |-> loc[t].session_id, oid |-> loc[t].oid]}
  /\ lessons' = Put(lessons, loc[t].session_id, Count(lessons, loc[t].session_id) + 1)
  /\ pc' = [pc EXCEPT ![t] = "idle"]
  /\ UNCHANGED <<SESSIONS, client, nobj, issued, last, loc, raw_text, out>>

NextConc ==
  \E t \in Threads :
    \/ \E sid \in ConcIds : Receive(t, sid)
    \/ CheckKnown(t)
    \/ CreateSession(t)
    \/ \E api \in ConcApiOutcomes : CallModel(t, api)
    \/ AppendHistory(t)
    \/ ReturnResponse(t)

SpecConc == InitConc /\ [][NextConc]_vars

\* ---------------------------------------------- runs of the pure functions
ParseChars == {"\n", " ", "x", "Checkpoint:", "CHECKPOINT:", "Recap:"}
FormatChars == {"\n", " ", "1", ")", ".", "x", "Code", "Apply"}

Texts(chars, n) == UNION {[1..k -> chars] : k \in 0..n}

InitParse ==
  /\ SESSIONS = << >>
  /\ client = FALSE
  /\ nobj = 0
  /\ issued = {}
  /\ lessons = << >>
  /\ last = NoRequest
  /\ pc = NoThreads
  /\ loc = NoThreads
  /\ completed = {}
  /\ raw_text \in Texts(ParseChars, MaxLen)
  /\ out = [kind |-> "none"]

Parse ==
  /\ out.kind = "none"
  /\ LET r == split_lesson_output(raw_text)
     IN out' = [kind |-> "parse", step |-> r.step, checkpoint |-> r.checkpoint,
                recap |-> r.recap]
  /\ UNCHANGED <<SESSIONS, client, nobj, issued, lessons, last, pc, loc, completed,
                 raw_text>>

SpecParse == InitParse /\ [][Parse]_vars

InitFormat ==
  /\ SESSIONS = << >>
  /\ client = FALSE
  /\ nobj = 0
  /\ issued = {}
  /\ lessons = << >>
  /\ last = NoRequest
  /\ pc = NoThreads
  /\ loc = NoThreads
  /\ completed = {}
  /\ raw_text \in Texts(FormatChars, MaxPracticeLen)
  /\ out = [kind |-> "none"]

Format ==
  /\ out.kind = "none"
  /\ out' = [kind |-> "format", items |-> practice_items(raw_text)]
  /\ UNCHANGED <<SESSIONS, client, nobj, issued, lessons, last, pc, loc, completed,
                 raw_text>>

SpecFormat == InitFormat /\ [][Format]_vars

\* ===================================================================== claims
IsPrefix(a, b) == Len(a) <= Len(b) /\ SubSeq(b, 1, Len(a)) = a

Served == nobj' = nobj + 1

\* C1: append-only transcripts.  Across every request, each session that
\* existed keeps existing and its earlier transcript is a prefix of its later
\* one; a request that reuses a known id is answered with that id, and a
\* lesson step on it leaves the prior turns in place, followed by the one
\* new turn.
C1_AppendOnly ==
  [][Served =>
       /\ \A id \in DOMAIN SESSIONS :
            /\ id \in DOMAIN SESSIONS'
            /\ IsPrefix(SESSIONS[id].history, SESSIONS'[id].history)
       /\ last'.known =>
            /\ last'.session_id = last'.req_sid
            /\ last'.op = "lesson" =>
                 /\ Len(SESSIONS'[last'.req_sid].history)
                      = Len(SESSIONS[last'.req_sid].history) + 1
                 /\ SubSeq(SESSIONS'[last'.req_sid].history, 1,
                           Len(SESSIONS[last'.req_sid].history))
                      = SESSIONS[last'.req_sid].history]_vars

C1_Witness ==
  /\ last.op = "lesson"
  /\ last.known
  /\ Len(SESSIONS[last.session_id].history) >= 2

\* C2: for every store the server can reach and every id that is absent
\* (None or empty) or not a key of the store, get_or_create_session returns
\* an id that is non-empty, was never returned before, and maps to an empty
\* transcript in the store it leaves.
C2_FreshId ==
  \A sid \in RequestIds :
    ~(Truthy(sid) /\ sid \in DOMAIN SESSIONS) =>
      \A uuid \in uuid4(SESSIONS, sid) :
        LET r == get_or_create_session(SESSIONS, sid, uuid)
        IN /\ r.id # None
           /\ r.id # ""
           /\ r.id \notin issued
           /\ r.id \in DOMAIN r.store
           /\ r.store[r.id].history = << >>

C2_Witness ==
  /\ last.op # "none"
  /\ ~last.known
  /\ last.req_sid = ""
  /\ last.session_id \in Uuids
  /\ Cardinality(issued) >= 2

\* C3: for every store the server can reach and every id that is a key of
\* it, get_or_create_session returns that id and the same store (no new
\* session, no transcript changed), and a second call in a row returns what
\* the first returned.
C3_Idempotent ==
  \A id \in DOMAIN SESSIONS :
    \A uuid \in Uuids \cup {None} :
      LET once == get_or_create_session(SESSIONS, id, uuid)
          twice == get_or_create_session(once.store, once.id, uuid)
      IN /\ once.id = id
         /\ once.store = SESSIONS
         /\ twice = once

C3_Witness ==
  /\ last.op = "practice"
  /\ last.known
  /\ last.session_id = last.req_sid
  /\ SESSIONS[last.session_id].history # << >>

LessonFallback(generation) ==
  IF generation = "unavailable"
  THEN OfflineLesson(<<"the topic">>, <<"this concept">>)
  ELSE ErrorLesson

\* C8: a request served while the generation capability is unavailable (no
\* client) or while its call fails is answered with status 200; the raw text
\* is the fixed fallback of its purpose, and the body is well formed: three
\* non-empty lesson fields, or a non-empty list of practice items.
C8_Fallback ==
  (last.op # "none" /\ last.generation \in {"unavailable", "failed"}) =>
    /\ last.status = 200
    /\ last.op = "lesson" =>
         /\ last.raw = LessonFallback(last.generation)
         /\ last.step # << >>
         /\ last.checkpoint_question # << >>
         /\ last.recap # << >>
    /\ last.op = "practice" =>
         /\ last.raw = PracticeFallback
         /\ Len(last.practice) = 5

C8_Witness ==
  /\ last.op = "lesson"
  /\ last.generation = "failed"
  /\ last.status = 200
  /\ last.raw = ErrorLesson

Oids(id) == {SESSIONS[id].history[i].oid : i \in DOMAIN SESSIONS[id].history}

\* C10: frame of the two handlers.  A lesson step leaves in the resolved
\* session its transcript followed by exactly one turn (assistant, the raw
\* text) and changes no other session; a practice request changes no
\* transcript and can only add a session with an empty one.  So the number
\* of turns of a session is the number of lesson steps completed on it, and
\* no turn is in two sessions.
C10_Frame ==
  /\ [](/\ \A id \in DOMAIN SESSIONS :
             Len(SESSIONS[id].history) = Count(lessons, id)
        /\ \A a, b \in DOMAIN SESSIONS : a # b => Oids(a) \cap Oids(b) = {})
  /\ [][Served =>
          /\ (last'.op = "lesson" /\ last'.status = 200) =>
               /\ DOMAIN SESSIONS' = DOMAIN SESSIONS \cup {last'.session_id}
               /\ SESSIONS'[last'.session_id].history
                    = Append(history_of(SESSIONS, last'.session_id),
                             [role |-> "assistant", content |-> last'.raw, oid |-> nobj])
               /\ \A id \in DOMAIN SESSIONS \ {last'.session_id} :
                    SESSIONS'[id] = SESSIONS[id]
          /\ last'.op = "practice" =>
               /\ DOMAIN SESSIONS' = DOMAIN SESSIONS \cup {last'.session_id}
               /\ \A id \in DOMAIN SESSIONS : SESSIONS'[id] = SESSIONS[id]
               /\ \A id \in DOMAIN SESSIONS' \ DOMAIN SESSIONS :
                    SESSIONS'[id].history = << >>]_vars

C10_Witness ==
  /\ Cardinality(DOMAIN SESSIONS) >= 2
  /\ \E a, b \in DOMAIN SESSIONS :
       a # b /\ Len(SESSIONS[a].history) = 2 /\ SESSIONS[b].history = << >>
  /\ last.op = "practice"

\* C4: with requests served concurrently, once every request has returned,
\* each turn appended by a request that returned is in the transcript of the
\* session that request resolved.
C4_NoLostAppend ==
  (\A t \in Threads : pc[t] = "idle") =>
    \A e \in completed :
      /\ e.session_id \in DOMAIN SESSIONS
      /\ e.oid \in Oids(e.session_id)

\* the non-empty trimmed lines that start with a marker, case ignored (1-based)
MarkerLines(ls, marker) ==
  {i \in DOMAIN ls : LowerChar(ls[i][1]) = marker}

ExpectedStep(t) ==
  LET ls == lesson_lines(t)
      M == MarkerLines(ls, "checkpoint:") \cup MarkerLines(ls, "recap:")
      seg == IF M = {} THEN ls ELSE SubSeq(ls, 1, Min(M) - 1)
  IN IF seg = << >> THEN DefaultStep ELSE join("\n", seg)

\* C5: the step returned by split_lesson_output is the lines before the
\* first Checkpoint:/Recap: line (all lines when there is no marker) joined
\* with line breaks, and the default sentence when there is no such line, as
\* for "Checkpoint: Q1\nRecap: R1" and for the empty text.
C5_StepSegment ==
  out.kind = "parse" => out.step = ExpectedStep(raw_text)

ExpectedCheckpoint(t) ==
  LET ls == lesson_lines(t)
      C == MarkerLines(ls, "checkpoint:")
      R == MarkerLines(ls, "recap:")
  IN IF C = {} THEN DefaultCheckpoint
     ELSE IF R # {} /\ Min(R) > Min(C)
          THEN join(" ", SubSeq(ls, Min(C), Min(R) - 1))
          ELSE join(" ", SubSeq(ls, Min(C), Len(ls)))

\* C6: split_lesson_output returns for every text (empty, blank, with no,
\* one, two or repeated markers in any order), and each of step, checkpoint
\* and recap is a non-empty string.
C6_ParseTotal ==
  out.kind = "parse" =>
    /\ out.step # << >>
    /\ out.checkpoint # << >>
    /\ out.recap # << >>

C6_Witness ==
  /\ out.kind = "parse"
  /\ raw_text # << >>
  /\ lesson_lines(raw_text) = << >>
  /\ out.step = DefaultStep

\* C7: the checkpoint returned by split_lesson_output is the lines from the
\* first Checkpoint: line (case ignored) up to, not including, the first
\* Recap: line when that line comes later, otherwise up to the last line,
\* joined by single spaces; it is the default question when no line starts
\* with Checkpoint:.
C7_CheckpointSegment ==
  out.kind = "parse" => out.checkpoint = ExpectedCheckpoint(raw_text)

C7_Witness ==
  /\ out.kind = "parse"
  /\ raw_text = <<"Recap:", "\n", "CHECKPOINT:", "\n", "x">>
  /\ out.checkpoint = <<"CHECKPOINT:", " ", "x">>

Digits == {"0", "1", "2", "3", "4", "5", "6", "7", "8", "9"}

\* a run of digits followed by ")", "." or space, removed once
StripNumberingPrefix(line) ==
  LET n == Len(line) - Len(lstrip(line, Digits))
  IN IF n >= 1 /\ Len(line) > n /\ line[n + 1] \in {")", ".", " "}
     THEN lstrip(SubSeq(line, n + 2, Len(line)), Whitespace)
     ELSE line

ExpectedKind(line) ==
  IF \E i \in DOMAIN line : LowerChar(line[i]) = "code" THEN "code"
  ELSE IF \E i \in DOMAIN line : LowerChar(line[i]) \in {"apply", "scenario"}
       THEN "applied"
  ELSE "concept"

ExpectedItems(t) ==
  LET ls == StrippedNonEmpty(splitlines(t))
  IN IF ls = << >> THEN <<DefaultPracticeItem>>
     ELSE [i \in DOMAIN ls |-> [question |-> StripNumberingPrefix(ls[i]),
                                 kind |-> ExpectedKind(ls[i])]]

\* C9: the practice formatter returns one item per non-empty trimmed line,
\* in order, with only the leading numbering prefix (digits, then ")", "."
\* or space) removed and the kind read from the line's keywords; one default
\* concept item when there is no such line.
C9_PracticeItems ==
  out.kind = "format" => out.items = ExpectedItems(raw_text)

====
